---- MODULE Spec2Model ----
(***************************************************************************)
(* The chat session manager of src/src/Chat.tsx: one React component whose *)
(* state is a set of useState cells, whose effects subscribe to the        *)
(* `message` and `connection_lost` push events, and whose handlers issue   *)
(* commands (invoke) that settle later.  Every await is a suspension       *)
(* point: the part of a handler before the await is one action, the part   *)
(* after it (the continuation, with the effects its state updates          *)
(* trigger) is another.                                                    *)
(***************************************************************************)
EXTENDS Integers, Sequences, FiniteSets, TLC

(* ------------------------------ bounds --------------------------------- *)
MaxLog == 2
MaxLeaks == 1
MaxSeqs == 2
MaxInFlight == 2
MaxGen == 1
MaxJoins == 1
MaxSends == 1

(* ------------------------- program constants --------------------------- *)
maxRetries == 5
InitialRetryDelay == 1000
BackoffFactor == 2
MsPerSecond == 1000
SavedUserId == 7
NewUserId == 8

(* --------------------------- value universe ---------------------------- *)
RoomIds == {1, 2}

RoomName(id) ==
  CASE id = 1 -> "IT General"
    [] id = 2 -> "HR General"
    [] OTHER -> ""

\* the ids get_user_by_id and upsert_user answer with
UserIds == {SavedUserId, NewUserId}

\* the id upsert_user answers with for the person at the login form
UpsertIds == {NewUserId}

UserName(id) == IF id \in UserIds THEN "Jane" ELSE ""

\* null for a ChatRoom / a User: id 0 is the absent (falsy) id
NoRoom == [id |-> 0, gen |-> 0]
NoUser == [id |-> 0, obj |-> 0]

Addrs == {"127.0.0.1:3625", "10.0.0.2:3625"}
DefaultServerIp == "127.0.0.1:3625"

\* what the login form can hold; 0 is the department select's null
Modes == {"client", "server"}
FormNames == {"", " ", "Jane"}
FormEmails == {"", "jane@nutler.io"}
DeptIds == {0, 1}
\* what get_departments answers: the ids of the departments, in order
DeptLists == {<<1>>, <<1, 2>>}
\* a form filled in correctly
ValidNames == FormNames \ {"", " "}
ValidEmails == FormEmails \ {""}
ValidDepts == DeptIds \ {0}
\* what get_server_info answers
ServerInfos == {"0.0.0.0:3625"}

\* what the input of the chat view can hold
Drafts == {"", " ", "hi"}

Usernames == {"Bob"}
Texts == {"hi"}
RawTimes == {1}
MessageTypes == {"Chat", "System"}

\* A `message` event payload after JSON.parse; json = FALSE is a payload
\* JSON.parse throws on.
Malformed ==
  [json |-> FALSE, username |-> "", message |-> "", message_type |-> "",
   room |-> "", created_at |-> 0]

Payloads ==
  {Malformed} \cup
  [json : {TRUE}, username : Usernames, message : Texts,
   message_type : MessageTypes, room : {RoomName(r) : r \in RoomIds},
   created_at : RawTimes]

\* new Date(Number(created_at) * 1000).toISOString(): the ISO instant has
\* millisecond precision, so it is represented by its count of milliseconds.
ToISO(created_at) == created_at * MsPerSecond

VARIABLES
  currentView, mode, username, email, departmentId, serverIp,
  currentRoom, messages, chatRooms, currentUser,
  storage,        \* localStorage["nutler.userId"], 0 when absent
  resume,         \* the auto-login get_user_by_id: "none", "inflight", "done"
  roomLoads,      \* get_chat_rooms calls in flight
  roomJoins,      \* join_room calls in flight, each with the room clicked
  histLoads,      \* get_room_messages calls in flight, per room id
  msgEffects,     \* instances of the message-listener effect
  lostEffects,    \* instances of the connection_lost effect
  seqs,           \* reconnect sequences, one per connection_lost callback run
  refused,        \* id of the room whose join_room failed since the last room click, else 0
  joins,          \* handleJoin runs, one per click of the join button
  message,        \* the draft in the input of the chat view
  sends,          \* handleSendMessage runs, one per click of the send button
  departments,    \* the departments of the join form
  deptLoading,    \* whether get_departments calls are in flight (one or more)
  echo,           \* the payload last appended to messages, and its deliveries since
  note,           \* whether a payload was dropped, and an event appended after that
  stale           \* the collections a failed refresh left with their snapshot

uiVars ==
  <<currentView, mode, username, email, departmentId, serverIp,
    currentRoom, messages, chatRooms, currentUser>>

vars ==
  <<currentView, mode, username, email, departmentId, serverIp,
    currentRoom, messages, chatRooms, currentUser, storage, resume,
    roomLoads, roomJoins, histLoads, msgEffects, lostEffects, seqs, joins,
    refused, echo, message, sends, departments, deptLoading, note, stale>>

formVars == <<mode, username, email, departmentId>>
draftVars == <<message, sends>>
deptVars == <<departments, deptLoading>>

\* no payload has been appended since messages was last replaced
NoEcho == [payload |-> Malformed, times |-> 0]

(* ------------------------------ effects -------------------------------- *)
\* The cleanup `stop?.()` of the effect instance that is mounted (not torn):
\* a registered listener is unlistened and gone; one whose `await listen` has
\* not resolved has stop undefined, so nothing is released.
Cleanup(effs) ==
  LET kept == SelectSeq(effs, LAMBDA e : e.torn \/ e.reg = "pending")
  IN [i \in 1..Len(kept) |-> [kept[i] EXCEPT !.torn = TRUE]]

\* instances whose cleanup ran before their listener was registered
Leaks(effs) == Len(SelectSeq(effs, LAMBDA e : e.torn))

\* useEffect(..., [currentRoom]) of the message listener
MessageEffect(effs, oldRoom, newRoom) ==
  IF newRoom = oldRoom THEN effs
  ELSE IF newRoom = NoRoom THEN Cleanup(effs)
  ELSE Append(Cleanup(effs), [room |-> newRoom, reg |-> "pending", torn |-> FALSE])

\* useEffect(..., [serverIp, currentUser, currentRoom]) of the reconnection
LostEffect(effs, old, new) ==
  IF new = old THEN effs
  ELSE Append(Cleanup(effs),
              [ip |-> new[1], user |-> new[2], room |-> new[3],
               reg |-> "pending", torn |-> FALSE])

\* The cleanup of the reconnection effect clears no timer: the sequences its
\* listener started go on.  owner/cancelDue record which of them had a timer
\* pending at that moment.
OrphanSeqs(ss, old, new) ==
  IF new = old THEN ss
  ELSE [i \in 1..Len(ss) |->
          IF ss[i].owner = "mounted"
          THEN [ss[i] EXCEPT !.owner = "torn",
                             !.cancelDue = (ss[i].phase = "timer")]
          ELSE ss[i]]

\* useEffect(..., [currentRoom]) -> loadRoomMessages
HistoryEffect(loads, oldRoom, newRoom) ==
  IF newRoom = oldRoom \/ newRoom = NoRoom \/ newRoom.id = 0 THEN loads
  ELSE [loads EXCEPT ![newRoom.id] = @ + 1]

RECURSIVE SumLoads(_, _)
SumLoads(loads, rs) ==
  IF rs = {} THEN 0
  ELSE LET r == CHOOSE x \in rs : TRUE IN loads[r] + SumLoads(loads, rs \ {r})

\* commands awaiting their response
CommandsInFlight(rl, rj, hl) == rl + Cardinality(rj) + SumLoads(hl, RoomIds)

Deps == <<serverIp, currentUser, currentRoom>>

\* The re-render after a state update: every effect whose dependencies
\* changed is cleaned up and run again.
Render(newIp, newUser, newRoom) ==
  /\ msgEffects' = MessageEffect(msgEffects, currentRoom, newRoom)
  /\ lostEffects' = LostEffect(lostEffects, Deps, <<newIp, newUser, newRoom>>)
  /\ seqs' = OrphanSeqs(seqs, Deps, <<newIp, newUser, newRoom>>)
  /\ histLoads' = HistoryEffect(histLoads, currentRoom, newRoom)

\* the bounds of the model on the state a step leads to
Bounded ==
  /\ Leaks(msgEffects') + Leaks(lostEffects') <= MaxLeaks
  /\ CommandsInFlight(roomLoads', roomJoins', histLoads') <= MaxInFlight

(* ------------------------------- Init ---------------------------------- *)
Init ==
  /\ currentView = "login"
  /\ mode = "client"
  /\ username = ""
  /\ email = ""
  /\ departmentId = 0
  /\ serverIp = DefaultServerIp
  /\ currentRoom = NoRoom
  /\ messages = <<>>
  /\ chatRooms = <<>>
  /\ currentUser = NoUser
  /\ storage \in {0, SavedUserId}
  /\ resume = IF storage = 0 THEN "none" ELSE "inflight"
  /\ roomLoads = 0
  /\ roomJoins = {}
  /\ histLoads = [r \in RoomIds |-> 0]
  /\ msgEffects = <<>>
  /\ lostEffects = <<[ip |-> DefaultServerIp, user |-> NoUser, room |-> NoRoom,
                      reg |-> "pending", torn |-> FALSE]>>
  /\ seqs = <<>>
  /\ joins = <<>>
  /\ refused = 0
  /\ echo = NoEcho
  /\ message = ""
  /\ sends = <<>>
  /\ departments = <<>>
  /\ deptLoading = TRUE
  /\ note = ""
  /\ stale = {}

(* -------------------------- session resume ----------------------------- *)
\* a .then of the auto-login effect that does not call loadChatRooms
ResumeSettleOkNoRefresh ==
  /\ resume = "inflight"
  /\ resume' = "done"
  /\ currentUser' = [id |-> SavedUserId, obj |-> 1]
  /\ username' = UserName(SavedUserId)
  /\ currentView' = "rooms"
  /\ Render(serverIp, currentUser', currentRoom)
  /\ UNCHANGED <<refused, joins, mode, email, departmentId, serverIp, currentRoom,
                 messages, chatRooms, storage, roomLoads, roomJoins, echo,
                 draftVars, deptVars, note, stale>>
  /\ Bounded

\* get_user_by_id resolved: .then of the auto-login effect
ResumeSettleOk ==
  /\ resume = "inflight"
  /\ resume' = "done"
  /\ currentUser' = [id |-> SavedUserId, obj |-> 1]
  /\ username' = UserName(SavedUserId)
  /\ currentView' = "rooms"
  /\ roomLoads' = roomLoads + 1
  /\ Render(serverIp, currentUser', currentRoom)
  /\ UNCHANGED <<refused, joins, mode, email, departmentId, serverIp, currentRoom, messages,
                 chatRooms, storage, roomJoins, echo,
                 draftVars, deptVars, note, stale>>
  /\ Bounded

\* get_user_by_id rejected: .catch of the auto-login effect
ResumeSettleFail ==
  /\ resume = "inflight"
  /\ resume' = "done"
  /\ storage' = 0
  /\ UNCHANGED <<refused, joins, uiVars, roomLoads, roomJoins, histLoads, msgEffects,
                 lostEffects, seqs, echo,
                 draftVars, deptVars, note, stale>>

(* ---------------------------- room catalog ----------------------------- *)
\* a refresh of collection `which` failed: noted when the collection held a
\* snapshot at that moment
Snapshot(noted, which, held) ==
  IF held # <<>> THEN noted \cup {which} ELSE noted

CatalogGen == IF chatRooms = <<>> THEN 0 ELSE chatRooms[1].gen

\* the rooms get_chat_rooms answers with: freshly built objects with the
\* given ids, 0 for a room that has no id
Catalog(ids) ==
  [k \in 1..Len(ids) |-> [id |-> ids[k], gen |-> CatalogGen + 1]]

\* get_chat_rooms resolved: the list is replaced
ChatRoomsSettleOk(ids) ==
  /\ roomLoads > 0
  /\ CatalogGen < MaxGen
  /\ roomLoads' = roomLoads - 1
  /\ chatRooms' = Catalog(ids)
  /\ UNCHANGED <<refused, joins, currentView, formVars, serverIp, currentRoom, messages,
                 currentUser, storage, resume, roomJoins, histLoads,
                 msgEffects, lostEffects, seqs, echo,
                 draftVars, deptVars, note, stale>>

\* get_chat_rooms rejected: the catch of loadChatRooms logs the error
ChatRoomsSettleFail ==
  /\ roomLoads > 0
  /\ roomLoads' = roomLoads - 1
  /\ stale' = Snapshot(stale, "rooms", chatRooms)
  /\ UNCHANGED <<refused, joins, uiVars, storage, resume, roomJoins, histLoads, msgEffects,
                 lostEffects, seqs, echo,
                 draftVars, deptVars, note>>

\* useEffect(..., [currentView]) -> loadDepartments: one more call in flight
LoginEffect(loading, oldView, newView) ==
  IF newView # oldView /\ newView = "login" THEN TRUE ELSE loading

\* get_departments resolved: setDepartments(deps).  The calls in flight are
\* not counted: `more` tells whether others remain after this one.
DepartmentsSettleOk(deps, more) ==
  /\ deptLoading
  /\ deptLoading' = more
  /\ departments' = deps
  /\ UNCHANGED <<refused, joins, uiVars, storage, resume, roomLoads, roomJoins,
                 histLoads, msgEffects, lostEffects, seqs, echo,
                 draftVars, note, stale>>

\* a catch of loadDepartments that empties the list
DepartmentsSettleFailClears(more) ==
  /\ deptLoading
  /\ deptLoading' = more
  /\ departments' = <<>>
  /\ stale' = Snapshot(stale, "departments", departments)
  /\ UNCHANGED <<refused, joins, uiVars, storage, resume, roomLoads, roomJoins,
                 histLoads, msgEffects, lostEffects, seqs, echo,
                 draftVars, note>>

\* get_departments rejected: the catch of loadDepartments logs the error
DepartmentsSettleFail(more) ==
  /\ deptLoading
  /\ deptLoading' = more
  /\ stale' = Snapshot(stale, "departments", departments)
  /\ UNCHANGED <<refused, joins, uiVars, storage, resume, roomLoads, roomJoins,
                 histLoads, msgEffects, lostEffects, seqs, echo,
                 draftVars, departments, note>>

(* ------------------------------ navigation ----------------------------- *)
\* a handleJoinRoom that does not test room.id
JoinRoomClickAnyRoom(room) ==
  /\ currentView = "rooms"
  /\ \E i \in 1..Len(chatRooms) : chatRooms[i] = room
  /\ currentUser.id # 0
  /\ roomJoins' = roomJoins \cup {room}
  /\ refused' = 0
  /\ UNCHANGED <<joins, uiVars, storage, resume, roomLoads, histLoads,
                 msgEffects, lostEffects, seqs, echo,
                 draftVars, deptVars, note, stale>>
  /\ Bounded

\* handleJoinRoom up to its await
JoinRoomClick(room) ==
  /\ currentView = "rooms"
  /\ \E i \in 1..Len(chatRooms) : chatRooms[i] = room
  /\ currentUser.id # 0 /\ room.id # 0
  /\ roomJoins' = roomJoins \cup {room}
  /\ refused' = 0
  /\ UNCHANGED <<joins, uiVars, storage, resume, roomLoads, histLoads, msgEffects,
                 lostEffects, seqs, echo,
                 draftVars, deptVars, note, stale>>
  /\ Bounded

\* join_room resolved: setCurrentRoom(room); setCurrentView("chat")
JoinRoomSettleOk(room) ==
  /\ room \in roomJoins
  /\ roomJoins' = roomJoins \ {room}
  /\ currentRoom' = room
  /\ currentView' = "chat"
  /\ Render(serverIp, currentUser, room)
  /\ UNCHANGED <<refused, joins, formVars, serverIp, messages, chatRooms, currentUser,
                 storage, resume, roomLoads, echo,
                 draftVars, deptVars, note, stale>>
  /\ Bounded

\* a catch of handleJoinRoom that shows the chat view all the same
JoinRoomSettleFailToChat(room) ==
  /\ room \in roomJoins
  /\ roomJoins' = roomJoins \ {room}
  /\ refused' = room.id
  /\ currentView' = "chat"
  /\ UNCHANGED <<joins, formVars, serverIp, currentRoom, messages, chatRooms,
                 currentUser, storage, resume, roomLoads, histLoads,
                 msgEffects, lostEffects, seqs, echo,
                 draftVars, deptVars, note, stale>>

\* join_room rejected: the catch logs the error
JoinRoomSettleFail(room) ==
  /\ room \in roomJoins
  /\ roomJoins' = roomJoins \ {room}
  /\ refused' = room.id
  /\ UNCHANGED <<joins, uiVars, storage, resume, roomLoads, histLoads, msgEffects,
                 lostEffects, seqs, echo,
                 draftVars, deptVars, note, stale>>

\* the room-list button of the chat header
Back ==
  /\ currentView = "chat"
  /\ currentView' = "rooms"
  /\ UNCHANGED <<refused, joins, formVars, serverIp, currentRoom, messages, chatRooms,
                 currentUser, storage, resume, roomLoads, roomJoins,
                 histLoads, msgEffects, lostEffects, seqs, echo,
                 draftVars, deptVars, note, stale>>

\* a log-out button that also forgets the persisted id
LeaveForgetsId ==
  /\ currentView = "chat"
  /\ currentView' = "login"
  /\ deptLoading' = LoginEffect(deptLoading, currentView, "login")
  /\ storage' = 0
  /\ UNCHANGED <<refused, joins, formVars, serverIp, currentRoom, messages, chatRooms,
                 currentUser, resume, roomLoads, roomJoins,
                 histLoads, msgEffects, lostEffects, seqs, echo,
                 draftVars, departments, note, stale>>

\* the log-out button of the chat header
Leave ==
  /\ currentView = "chat"
  /\ currentView' = "login"
  /\ deptLoading' = LoginEffect(deptLoading, currentView, "login")
  /\ UNCHANGED <<refused, joins, formVars, serverIp, currentRoom, messages, chatRooms,
                 currentUser, storage, resume, roomLoads, roomJoins,
                 histLoads, msgEffects, lostEffects, seqs, echo,
                 draftVars, departments, note, stale>>

\* typing in the server address field of the login form
SetServerIp(a) ==
  /\ currentView = "login"
  /\ mode = "client"
  /\ a # serverIp
  /\ serverIp' = a
  /\ Render(a, currentUser, currentRoom)
  /\ UNCHANGED <<refused, joins, currentView, formVars, currentRoom, messages, chatRooms,
                 currentUser, storage, resume, roomLoads, roomJoins, echo,
                 draftVars, deptVars, note, stale>>
  /\ Bounded

(* --------------------------- message ingestion ------------------------- *)
\* `await listen("message", ...)` resolved: stop is assigned
MsgListenResolve(i) ==
  /\ i \in 1..Len(msgEffects)
  /\ msgEffects[i].reg = "pending"
  /\ msgEffects' = [msgEffects EXCEPT ![i].reg = "live"]
  /\ UNCHANGED <<refused, joins, uiVars, storage, resume, roomLoads, roomJoins, histLoads,
                 lostEffects, seqs, echo,
                 draftVars, deptVars, note, stale>>

\* isDuplicate comparing the stored created_at with the event's raw seconds
isDuplicateRaw(prev, m) ==
  \E i \in 1..Len(prev) :
    /\ prev[i].message = m.message
    /\ prev[i].username = m.username
    /\ prev[i].created_at = m.created_at

\* prev.some(...): same text, same sender, same normalised created_at
isDuplicate(prev, m) ==
  \E i \in 1..Len(prev) :
    /\ prev[i].message = m.message
    /\ prev[i].username = m.username
    /\ prev[i].created_at = ToISO(m.created_at)

\* an updater that puts the new entry in front
UpdaterPrepends(prev, room, m) ==
  IF isDuplicate(prev, m) THEN prev
  ELSE <<[room_id |-> room.id, room |-> RoomName(room.id),
          username |-> m.username, message |-> m.message,
          created_at |-> ToISO(m.created_at)]>> \o prev

\* the setMessages updater of the listener whose closure holds `room`
Updater(prev, room, m) ==
  IF isDuplicate(prev, m) THEN prev
  ELSE Append(prev, [room_id |-> room.id, room |-> RoomName(room.id),
                     username |-> m.username, message |-> m.message,
                     created_at |-> ToISO(m.created_at)])

\* a callback whose catch empties the log
CallbackClears(prev, room, p) ==
  IF ~p.json THEN <<>>
  ELSE IF p.message_type = "Chat" /\ p.room = RoomName(room.id)
       THEN Updater(prev, room, p)
       ELSE prev

\* the listener callback: parse, filter, update
Callback(prev, room, p) ==
  IF ~p.json THEN prev
  ELSE IF p.message_type = "Chat" /\ p.room = RoomName(room.id)
       THEN Updater(prev, room, p)
       ELSE prev

\* one event reaches every registered listener, in registration order
RECURSIVE Deliver(_, _, _)
Deliver(effs, prev, p) ==
  IF effs = <<>> THEN prev
  ELSE Deliver(Tail(effs),
               IF Head(effs).reg = "live" THEN Callback(prev, Head(effs).room, p)
               ELSE prev,
               p)

\* what is noted of an event: a payload that failed to parse was dropped
\* and, after that, an event was appended
Noted(was, p, appended) ==
  IF ~p.json THEN "dropped"
  ELSE IF was = "dropped" /\ appended THEN "recovered"
  ELSE was

MessageEvent(p) ==
  /\ \E i \in 1..Len(msgEffects) : msgEffects[i].reg = "live"
  /\ messages' = Deliver(msgEffects, messages, p)
  /\ Len(messages') <= MaxLog
  /\ echo' = IF messages' # messages THEN [payload |-> p, times |-> 1]
             ELSE IF echo.payload = p /\ echo.times = 1 THEN [echo EXCEPT !.times = 2]
             ELSE echo
  /\ note' = Noted(note, p, messages' # messages)
  /\ UNCHANGED <<refused, joins, currentView, formVars, serverIp, currentRoom, chatRooms,
                 currentUser, storage, resume, roomLoads, roomJoins,
                 histLoads, msgEffects, lostEffects, seqs,
                 draftVars, deptVars, stale>>

(* ----------------------------- history load ---------------------------- *)
HistoryEntries(r) ==
  [room_id : {r}, room : {RoomName(r)}, username : Usernames,
   message : {"hi"}, created_at : {ToISO(t) : t \in RawTimes}]

\* what get_room_messages may answer for room r: any list of that room's
\* stored rows (rows are keyed by id, so two may agree on every other column)
HistoryResponses(r) ==
  UNION {[1..n -> HistoryEntries(r)] : n \in 0..MaxLog}

\* a loadRoomMessages that adds the rows to the log it finds
HistorySettleOkMerges(r, msgs) ==
  /\ histLoads[r] > 0
  /\ histLoads' = [histLoads EXCEPT ![r] = @ - 1]
  /\ messages' = messages \o msgs
  /\ echo' = NoEcho
  /\ UNCHANGED <<refused, joins, currentView, formVars, serverIp, currentRoom, chatRooms,
                 currentUser, storage, resume, roomLoads, roomJoins,
                 msgEffects, lostEffects, seqs,
                 draftVars, deptVars, note, stale>>

\* get_room_messages resolved: setMessages(msgs)
HistorySettleOk(r, msgs) ==
  /\ histLoads[r] > 0
  /\ histLoads' = [histLoads EXCEPT ![r] = @ - 1]
  /\ messages' = msgs
  /\ echo' = NoEcho
  /\ UNCHANGED <<refused, joins, currentView, formVars, serverIp, currentRoom, chatRooms,
                 currentUser, storage, resume, roomLoads, roomJoins,
                 msgEffects, lostEffects, seqs,
                 draftVars, deptVars, note, stale>>

HistorySettleFail(r) ==
  /\ histLoads[r] > 0
  /\ histLoads' = [histLoads EXCEPT ![r] = @ - 1]
  /\ UNCHANGED <<refused, joins, uiVars, storage, resume, roomLoads, roomJoins, msgEffects,
                 lostEffects, seqs, echo,
                 draftVars, deptVars, note, stale>>

(* ----------------------------- reconnection ---------------------------- *)
\* `await listen("connection_lost", ...)` resolved: stop is assigned
LostListenResolve(i) ==
  /\ i \in 1..Len(lostEffects)
  /\ lostEffects[i].reg = "pending"
  /\ lostEffects' = [lostEffects EXCEPT ![i].reg = "live"]
  /\ UNCHANGED <<refused, joins, uiVars, storage, resume, roomLoads, roomJoins, histLoads,
                 msgEffects, seqs, echo,
                 draftVars, deptVars, note, stale>>

\* the arguments of invoke("client_connect", ...) in the timer callback
ConnectArgs(ip, user, room) ==
  [host |-> ip, username |-> UserName(user.id), user_id |-> user.id,
   room |-> IF room.id = 0 THEN "Company Wide" ELSE RoomName(room.id),
   room_id |-> IF room.id = 0 THEN 1 ELSE room.id]

NoCall == [host |-> "", username |-> "", user_id |-> 0, room |-> "", room_id |-> 0]

\* attemptReconnect: give up at maxRetries, else arm the timer
attemptReconnect(s) ==
  IF s.retryCount >= maxRetries THEN [s EXCEPT !.phase = "exhausted"]
  ELSE [s EXCEPT !.phase = "timer"]

\* the connection_lost callback of listener e: fresh locals, first attempt
NewSeq(e, ev, after) ==
  attemptReconnect(
    [ip |-> e.ip, user |-> e.user, room |-> e.room,
     retryCount |-> 0, retryDelay |-> InitialRetryDelay, phase |-> "new",
     call |-> NoCall, delays |-> <<>>, event |-> ev,
     owner |-> IF e.torn THEN "torn" ELSE "mounted",
     cancelDue |-> FALSE, afterSuccess |-> after])

LiveLost == SelectSeq(lostEffects, LAMBDA e : e.reg = "live")

ConnectionLostEvent ==
  /\ LiveLost # <<>>
  /\ Len(seqs) + Len(LiveLost) <= MaxSeqs
  /\ seqs' = seqs \o
       [i \in 1..Len(LiveLost) |->
          NewSeq(LiveLost[i], Len(seqs) + 1,
                 \E j \in 1..Len(seqs) : seqs[j].phase = "connected")]
  /\ UNCHANGED <<refused, joins, uiVars, storage, resume, roomLoads, roomJoins, histLoads,
                 msgEffects, lostEffects, echo,
                 draftVars, deptVars, note, stale>>

\* the setTimeout callback: invoke("client_connect", ...) with the closure's
\* serverIp, currentUser and currentRoom
TimerFire(i) ==
  /\ i \in 1..Len(seqs)
  /\ seqs[i].phase = "timer"
  /\ seqs' = [seqs EXCEPT ![i].phase = "inflight",
                          ![i].call = ConnectArgs(seqs[i].ip, seqs[i].user,
                                                  seqs[i].room),
                          ![i].delays = Append(@, seqs[i].retryDelay),
                          ![i].cancelDue = FALSE]
  /\ UNCHANGED <<refused, joins, uiVars, storage, resume, roomLoads, roomJoins, histLoads,
                 msgEffects, lostEffects, echo,
                 draftVars, deptVars, note, stale>>

\* a .then that leaves retryCount as the failures left it
ReconnectSucceededNoReset(s) == [s EXCEPT !.phase = "connected"]

\* .then of the reconnect attempt
ReconnectSucceeded(s) == [s EXCEPT !.retryCount = 0, !.phase = "connected"]

\* a .catch that only logs the error
ReconnectFailedGivesUp(s) == [s EXCEPT !.phase = "failed"]

\* .catch of the reconnect attempt
ReconnectFailed(s) ==
  attemptReconnect([s EXCEPT !.retryCount = @ + 1,
                             !.retryDelay = @ * BackoffFactor])

ReconnectSettleOk(i) ==
  /\ i \in 1..Len(seqs)
  /\ seqs[i].phase = "inflight"
  /\ seqs' = [seqs EXCEPT ![i] = ReconnectSucceeded(seqs[i])]
  /\ UNCHANGED <<refused, joins, uiVars, storage, resume, roomLoads, roomJoins, histLoads,
                 msgEffects, lostEffects, echo,
                 draftVars, deptVars, note, stale>>

\* a .catch that sends the user back to the login form once the attempts
\* are exhausted
ReconnectSettleFailToLogin(i) ==
  /\ i \in 1..Len(seqs)
  /\ seqs[i].phase = "inflight"
  /\ seqs' = [seqs EXCEPT ![i] = ReconnectFailed(seqs[i])]
  /\ currentView' = IF seqs'[i].phase = "exhausted" THEN "login" ELSE currentView
  /\ UNCHANGED <<refused, joins, formVars, serverIp, currentRoom, messages,
                 chatRooms, currentUser, storage, resume, roomLoads, roomJoins,
                 histLoads, msgEffects, lostEffects, echo,
                 draftVars, deptVars, note, stale>>

ReconnectSettleFail(i) ==
  /\ i \in 1..Len(seqs)
  /\ seqs[i].phase = "inflight"
  /\ seqs' = [seqs EXCEPT ![i] = ReconnectFailed(seqs[i])]
  /\ UNCHANGED <<refused, joins, uiVars, storage, resume, roomLoads, roomJoins, histLoads,
                 msgEffects, lostEffects, echo,
                 draftVars, deptVars, note, stale>>

(* -------------------------------- join --------------------------------- *)
\* typing in the login form
SetMode(m) ==
  /\ currentView = "login"
  /\ m # mode
  /\ mode' = m
  /\ UNCHANGED <<currentView, username, email, departmentId, serverIp,
                 currentRoom, messages, chatRooms, currentUser, storage, resume,
                 roomLoads, roomJoins, histLoads, msgEffects, lostEffects, seqs,
                 refused, joins, echo,
                 draftVars, deptVars, note, stale>>

SetUsername(u) ==
  /\ currentView = "login"
  /\ u # username
  /\ username' = u
  /\ UNCHANGED <<currentView, mode, email, departmentId, serverIp,
                 currentRoom, messages, chatRooms, currentUser, storage, resume,
                 roomLoads, roomJoins, histLoads, msgEffects, lostEffects, seqs,
                 refused, joins, echo,
                 draftVars, deptVars, note, stale>>

SetEmail(e) ==
  /\ currentView = "login"
  /\ e # email
  /\ email' = e
  /\ UNCHANGED <<currentView, mode, username, departmentId, serverIp,
                 currentRoom, messages, chatRooms, currentUser, storage, resume,
                 roomLoads, roomJoins, histLoads, msgEffects, lostEffects, seqs,
                 refused, joins, echo,
                 draftVars, deptVars, note, stale>>

SetDepartmentId(d) ==
  /\ currentView = "login"
  /\ d # departmentId
  /\ departmentId' = d
  /\ UNCHANGED <<currentView, mode, username, email, serverIp,
                 currentRoom, messages, chatRooms, currentUser, storage, resume,
                 roomLoads, roomJoins, histLoads, msgEffects, lostEffects, seqs,
                 refused, joins, echo,
                 draftVars, deptVars, note, stale>>

\* String.prototype.trim on the values the form can hold
Trim(s) == IF s = " " THEN "" ELSE s

\* a guard that tests the fields as typed, without trim
JoinGuardNoTrim(name, mail, dept) == name # "" /\ mail # "" /\ dept # 0

\* username.trim() && email.trim() && departmentId
JoinGuard(name, mail, dept) == Trim(name) # "" /\ Trim(mail) # "" /\ dept # 0

\* a run of handleJoin that passed the guard: the values its closure holds,
\* the commands it has issued so far, and currentUser and the persisted id as
\* they were at the click
NewJoin ==
  [phase |-> "upsert", mode |-> mode, username |-> username, email |-> email,
   dept |-> departmentId, ip |-> serverIp, user |-> NoUser, host |-> "",
   issued |-> <<"upsert_user">>, userBefore |-> currentUser,
   storageBefore |-> storage]

\* a run of handleJoin that the guard ended: it read nothing else and issued
\* nothing
RejectedJoin ==
  [phase |-> "rejected", mode |-> "", username |-> "", email |-> "",
   dept |-> 0, ip |-> "", user |-> NoUser, host |-> "", issued |-> <<>>,
   userBefore |-> currentUser, storageBefore |-> storage]

\* handleJoin up to its first await
JoinClick ==
  /\ currentView = "login"
  /\ Len(joins) < MaxJoins
  /\ joins' = Append(joins,
                IF JoinGuard(username, email, departmentId)
                THEN NewJoin ELSE RejectedJoin)
  /\ UNCHANGED <<refused, uiVars, storage, resume, roomLoads, roomJoins, histLoads,
                 msgEffects, lostEffects, seqs, echo,
                 draftVars, deptVars, note, stale>>

\* a handleJoin that stores the id and keeps the session user it found
UpsertSettleOkNoUser(i, uid) ==
  /\ i \in 1..Len(joins)
  /\ joins[i].phase = "upsert"
  /\ LET user == [id |-> uid, obj |-> i + 1]
         host == joins[i].mode = "server"
     IN /\ joins' = [joins EXCEPT
                       ![i].user = user,
                       ![i].phase = IF host THEN "listen" ELSE "connect",
                       ![i].host = IF host THEN "" ELSE joins[i].ip,
                       ![i].issued = Append(@, IF host THEN "server_listen"
                                               ELSE "client_connect")]
        /\ currentUser' = currentUser
        /\ storage' = uid
        /\ Render(serverIp, currentUser, currentRoom)
  /\ UNCHANGED <<refused, currentView, formVars, serverIp, currentRoom, messages,
                 chatRooms, resume, roomLoads, roomJoins, echo,
                 draftVars, deptVars, note, stale>>
  /\ Bounded

\* upsert_user resolved with user uid: setCurrentUser, localStorage.setItem,
\* then server_listen (host mode) or client_connect is issued
UpsertSettleOk(i, uid) ==
  /\ i \in 1..Len(joins)
  /\ joins[i].phase = "upsert"
  /\ LET user == [id |-> uid, obj |-> i + 1]
         host == joins[i].mode = "server"
     IN /\ joins' = [joins EXCEPT
                       ![i].user = user,
                       ![i].phase = IF host THEN "listen" ELSE "connect",
                       ![i].host = IF host THEN "" ELSE joins[i].ip,
                       ![i].issued = Append(@, IF host THEN "server_listen"
                                               ELSE "client_connect")]
        /\ currentUser' = user
        /\ storage' = uid
        /\ Render(serverIp, user, currentRoom)
  /\ UNCHANGED <<refused, currentView, formVars, serverIp, currentRoom, messages,
                 chatRooms, resume, roomLoads, roomJoins, echo,
                 draftVars, deptVars, note, stale>>
  /\ Bounded

\* server_listen resolved: get_server_info is issued
ServerListenSettleOk(i) ==
  /\ i \in 1..Len(joins)
  /\ joins[i].phase = "listen"
  /\ joins' = [joins EXCEPT ![i].phase = "info",
                            ![i].issued = Append(@, "get_server_info")]
  /\ UNCHANGED <<refused, uiVars, storage, resume, roomLoads, roomJoins, histLoads,
                 msgEffects, lostEffects, seqs, echo,
                 draftVars, deptVars, note, stale>>

\* addr.replace("0.0.0.0", "127.0.0.1")
LocalHost(addr) == IF addr = "0.0.0.0:3625" THEN "127.0.0.1:3625" ELSE addr

\* get_server_info resolved: client_connect to the own server is issued
ServerInfoSettleOk(i, addr) ==
  /\ i \in 1..Len(joins)
  /\ joins[i].phase = "info"
  /\ joins' = [joins EXCEPT ![i].phase = "connect",
                            ![i].host = LocalHost(addr),
                            ![i].issued = Append(@, "client_connect")]
  /\ UNCHANGED <<refused, uiVars, storage, resume, roomLoads, roomJoins, histLoads,
                 msgEffects, lostEffects, seqs, echo,
                 draftVars, deptVars, note, stale>>

\* client_connect resolved: loadChatRooms is awaited
JoinConnectSettleOk(i) ==
  /\ i \in 1..Len(joins)
  /\ joins[i].phase = "connect"
  /\ joins' = [joins EXCEPT ![i].phase = "rooms",
                            ![i].issued = Append(@, "get_chat_rooms")]
  /\ UNCHANGED <<refused, uiVars, storage, resume, roomLoads, roomJoins, histLoads,
                 msgEffects, lostEffects, seqs, echo,
                 draftVars, deptVars, note, stale>>

\* upsert_user, server_listen, get_server_info or client_connect rejected:
\* the catch of handleJoin logs the error
JoinCommandFail(i) ==
  /\ i \in 1..Len(joins)
  /\ joins[i].phase \in {"upsert", "listen", "info", "connect"}
  /\ joins' = [joins EXCEPT ![i].phase = "failed"]
  /\ UNCHANGED <<refused, uiVars, storage, resume, roomLoads, roomJoins, histLoads,
                 msgEffects, lostEffects, seqs, echo,
                 draftVars, deptVars, note, stale>>

\* the awaited loadChatRooms resolved the list: setChatRooms, then
\* setCurrentView("rooms")
JoinRoomsSettleOk(i, ids) ==
  /\ i \in 1..Len(joins)
  /\ joins[i].phase = "rooms"
  /\ CatalogGen < MaxGen
  /\ joins' = [joins EXCEPT ![i].phase = "done"]
  /\ chatRooms' = Catalog(ids)
  /\ currentView' = "rooms"
  /\ UNCHANGED <<refused, formVars, serverIp, currentRoom, messages, currentUser,
                 storage, resume, roomLoads, roomJoins, histLoads, msgEffects,
                 lostEffects, seqs, echo,
                 draftVars, deptVars, note, stale>>

\* the awaited loadChatRooms caught its error: setCurrentView("rooms")
JoinRoomsSettleFail(i) ==
  /\ i \in 1..Len(joins)
  /\ joins[i].phase = "rooms"
  /\ joins' = [joins EXCEPT ![i].phase = "done"]
  /\ currentView' = "rooms"
  /\ stale' = Snapshot(stale, "rooms", chatRooms)
  /\ UNCHANGED <<refused, formVars, serverIp, currentRoom, messages, chatRooms,
                 currentUser, storage, resume, roomLoads, roomJoins, histLoads,
                 msgEffects, lostEffects, seqs, echo,
                 draftVars, deptVars, note>>

(* -------------------------------- send --------------------------------- *)
\* typing in the input of the chat view
SetMessage(t) ==
  /\ currentView = "chat"
  /\ t # message
  /\ message' = t
  /\ UNCHANGED <<uiVars, storage, resume, roomLoads, roomJoins, histLoads,
                 msgEffects, lostEffects, seqs, refused, joins, echo, sends,
                 deptVars, note, stale>>

\* message.trim() && currentRoom?.id && currentUser?.id
SendGuard(text, room, user) == Trim(text) # "" /\ room.id # 0 /\ user.id # 0

\* a run of handleSendMessage that passed the guard: the arguments of its
\* invoke("send", ...)
NewSend ==
  [phase |-> "inflight", message |-> message, user_id |-> currentUser.id,
   room |-> RoomName(currentRoom.id), room_id |-> currentRoom.id]

\* a run of handleSendMessage that the guard ended
RejectedSend ==
  [phase |-> "rejected", message |-> "", user_id |-> 0, room |-> "", room_id |-> 0]

\* handleSendMessage up to its await (the send button, or Enter in the input)
SendClick ==
  /\ currentView = "chat"
  /\ Len(sends) < MaxSends
  /\ sends' = Append(sends,
                IF SendGuard(message, currentRoom, currentUser)
                THEN NewSend ELSE RejectedSend)
  /\ UNCHANGED <<uiVars, storage, resume, roomLoads, roomJoins, histLoads,
                 msgEffects, lostEffects, seqs, refused, joins, echo, message,
                 deptVars, note, stale>>

\* the handler of an earlier iteration: the message is also added to the log
SendSettleOkAppends(i) ==
  /\ i \in 1..Len(sends)
  /\ sends[i].phase = "inflight"
  /\ sends' = [sends EXCEPT ![i].phase = "ok"]
  /\ messages' = Append(messages,
                   [room_id |-> sends[i].room_id, room |-> sends[i].room,
                    username |-> UserName(sends[i].user_id),
                    message |-> sends[i].message, created_at |-> 0])
  /\ message' = ""
  /\ UNCHANGED <<currentView, formVars, serverIp, currentRoom, chatRooms,
                 currentUser, storage, resume, roomLoads, roomJoins, histLoads,
                 msgEffects, lostEffects, seqs, refused, joins, echo,
                 deptVars, note, stale>>

\* send resolved: setMessage("")
SendSettleOk(i) ==
  /\ i \in 1..Len(sends)
  /\ sends[i].phase = "inflight"
  /\ sends' = [sends EXCEPT ![i].phase = "ok"]
  /\ message' = ""
  /\ UNCHANGED <<uiVars, storage, resume, roomLoads, roomJoins, histLoads,
                 msgEffects, lostEffects, seqs, refused, joins, echo,
                 deptVars, note, stale>>

\* send rejected: the catch logs the error, the draft stays
SendSettleFail(i) ==
  /\ i \in 1..Len(sends)
  /\ sends[i].phase = "inflight"
  /\ sends' = [sends EXCEPT ![i].phase = "failed"]
  /\ UNCHANGED <<uiVars, storage, resume, roomLoads, roomJoins, histLoads,
                 msgEffects, lostEffects, seqs, refused, joins, echo, message,
                 deptVars, note, stale>>

(* --------------------------- specifications ---------------------------- *)
AllRooms == [id : RoomIds, gen : 1..MaxGen]

\* the ids of the rooms of the database, and a list with a room without id
RoomList == <<1, 2>>
CatalogIds == {RoomList, <<1, 2, 0>>}
ListedRooms == [id : RoomIds \cup {0}, gen : 1..MaxGen]

Boot ==
  \/ ResumeSettleOk
  \/ ResumeSettleFail
  \/ \E i \in 1..(MaxLeaks + 1) : LostListenResolve(i)

Session ==
  \/ Boot
  \/ ChatRoomsSettleOk(RoomList)
  \/ ChatRoomsSettleFail
  \/ \E room \in AllRooms : JoinRoomClick(room)
  \/ \E room \in AllRooms : JoinRoomSettleOk(room)
  \/ \E room \in AllRooms : JoinRoomSettleFail(room)
  \/ Back
  \/ Leave
  \/ \E i \in 1..(MaxLeaks + 1) : MsgListenResolve(i)

\* the events whose payload parses, and the history
Ingest ==
  \/ \E p \in Payloads \ {Malformed} : MessageEvent(p)
  \/ \E r \in RoomIds : \E msgs \in HistoryResponses(r) : HistorySettleOk(r, msgs)
  \/ \E r \in RoomIds : HistorySettleFail(r)

Reconnect ==
  \/ ConnectionLostEvent
  \/ \E i \in 1..MaxSeqs : TimerFire(i)
  \/ \E i \in 1..MaxSeqs : ReconnectSettleOk(i)
  \/ \E i \in 1..MaxSeqs : ReconnectSettleFail(i)

EditAddress == \E a \in Addrs : SetServerIp(a)

Form ==
  \/ \E m \in Modes : SetMode(m)
  \/ \E u \in FormNames : SetUsername(u)
  \/ \E e \in FormEmails : SetEmail(e)
  \/ \E d \in DeptIds : SetDepartmentId(d)

Join ==
  \/ JoinClick
  \/ \E i \in 1..MaxJoins : \E uid \in UpsertIds : UpsertSettleOk(i, uid)
  \/ \E i \in 1..MaxJoins : ServerListenSettleOk(i)
  \/ \E i \in 1..MaxJoins : \E addr \in ServerInfos : ServerInfoSettleOk(i, addr)
  \/ \E i \in 1..MaxJoins : JoinConnectSettleOk(i)
  \/ \E i \in 1..MaxJoins : JoinCommandFail(i)
  \/ \E i \in 1..MaxJoins : JoinRoomsSettleOk(i, RoomList)
  \/ \E i \in 1..MaxJoins : JoinRoomsSettleFail(i)

\* resume, a client-mode join, the catalog with or without an id-less room, entering a
\* room, back and leave
Navigate ==
  \/ ResumeSettleOk
  \/ ResumeSettleFail
  \/ \E i \in 1..(MaxLeaks + 1) : LostListenResolve(i)
  \/ \E i \in 1..(MaxLeaks + 1) : MsgListenResolve(i)
  \/ \E ids \in CatalogIds : ChatRoomsSettleOk(ids)
  \/ ChatRoomsSettleFail
  \/ \E room \in ListedRooms : JoinRoomClick(room)
  \/ \E room \in ListedRooms : JoinRoomSettleOk(room)
  \/ \E room \in ListedRooms : JoinRoomSettleFail(room)
  \/ Back
  \/ Leave
  \/ \E r \in RoomIds : \E msgs \in HistoryResponses(r) : HistorySettleOk(r, msgs)
  \/ \E r \in RoomIds : HistorySettleFail(r)
  \/ \E u \in ValidNames : SetUsername(u)
  \/ \E e \in ValidEmails : SetEmail(e)
  \/ \E d \in ValidDepts : SetDepartmentId(d)
  \/ JoinClick
  \/ \E i \in 1..MaxJoins : \E uid \in UpsertIds : UpsertSettleOk(i, uid)
  \/ \E i \in 1..MaxJoins : JoinConnectSettleOk(i)
  \/ \E i \in 1..MaxJoins : JoinCommandFail(i)
  \/ \E i \in 1..MaxJoins : \E ids \in CatalogIds : JoinRoomsSettleOk(i, ids)
  \/ \E i \in 1..MaxJoins : JoinRoomsSettleFail(i)

\* the room list and the chat view of a resumed session
Rooms ==
  \/ Boot
  \/ \E i \in 1..(MaxLeaks + 1) : MsgListenResolve(i)
  \/ \E ids \in CatalogIds : ChatRoomsSettleOk(ids)
  \/ ChatRoomsSettleFail
  \/ \E room \in ListedRooms : JoinRoomClick(room)
  \/ \E room \in ListedRooms : JoinRoomSettleOk(room)
  \/ \E room \in ListedRooms : JoinRoomSettleFail(room)
  \/ Back
  \/ Leave
  \/ \E r \in RoomIds : \E msgs \in HistoryResponses(r) : HistorySettleOk(r, msgs)
  \/ \E r \in RoomIds : HistorySettleFail(r)

\* a resumed session that enters one room and loses its connection there
OneRoom == {room \in AllRooms : room.id = 1}

Stay ==
  \/ Boot
  \/ ChatRoomsSettleOk(RoomList)
  \/ \E room \in OneRoom : JoinRoomClick(room)
  \/ \E room \in OneRoom : JoinRoomSettleOk(room)
  \/ Reconnect

\* the departments of the login form, each response being the last one in
\* flight or not
Departments ==
  \/ \E deps \in DeptLists : \E more \in BOOLEAN : DepartmentsSettleOk(deps, more)
  \/ \E more \in BOOLEAN : DepartmentsSettleFail(more)

\* the two collections: the departments loaded at the login form, the rooms
\* loaded by a resume, and by a join whose get_chat_rooms fails
Refresh ==
  \/ Boot
  \/ \E deps \in DeptLists : DepartmentsSettleOk(deps, FALSE)
  \/ DepartmentsSettleFail(FALSE)
  \/ ChatRoomsSettleOk(RoomList)
  \/ ChatRoomsSettleFail
  \/ \E room \in OneRoom : JoinRoomClick(room)
  \/ \E room \in OneRoom : JoinRoomSettleOk(room)
  \/ Leave
  \/ \E u \in ValidNames : SetUsername(u)
  \/ \E e \in ValidEmails : SetEmail(e)
  \/ \E d \in ValidDepts : SetDepartmentId(d)
  \/ JoinClick
  \/ \E i \in 1..MaxJoins : \E uid \in UpsertIds : UpsertSettleOk(i, uid)
  \/ \E i \in 1..MaxJoins : JoinConnectSettleOk(i)
  \/ \E i \in 1..MaxJoins : JoinRoomsSettleFail(i)

\* the `message` event the server sends for a message of the session's user
EchoPayloads ==
  [json : {TRUE}, username : {UserName(SavedUserId)}, message : Texts,
   message_type : {"Chat"}, room : {RoomName(1)}, created_at : RawTimes]

Send ==
  \/ \E t \in Drafts : SetMessage(t)
  \/ SendClick
  \/ \E i \in 1..MaxSends : SendSettleOk(i)
  \/ \E i \in 1..MaxSends : SendSettleFail(i)

\* a resumed session in one room: typing, sending, and the events and the
\* history that fill the log
Compose ==
  \/ Boot
  \/ ChatRoomsSettleOk(RoomList)
  \/ \E room \in OneRoom : JoinRoomClick(room)
  \/ \E room \in OneRoom : JoinRoomSettleOk(room)
  \/ \E i \in 1..(MaxLeaks + 1) : MsgListenResolve(i)
  \/ \E p \in EchoPayloads : MessageEvent(p)
  \/ \E msgs \in HistoryResponses(1) : HistorySettleOk(1, msgs)
  \/ HistorySettleFail(1)
  \/ Send

\* the timestamps of the events of one room: two instants in seconds, and
\* the first of them in milliseconds
LogTimes == RawTimes \cup {2} \cup {t * MsPerSecond : t \in RawTimes}

LogPayloads ==
  {Malformed} \cup
  [json : {TRUE}, username : Usernames, message : Texts,
   message_type : {"Chat"}, room : {RoomName(1)}, created_at : LogTimes]

\* a resumed session in one room: its events, parsable or not, and its
\* history
Log ==
  \/ Boot
  \/ ChatRoomsSettleOk(RoomList)
  \/ \E room \in OneRoom : JoinRoomClick(room)
  \/ \E room \in OneRoom : JoinRoomSettleOk(room)
  \/ \E i \in 1..(MaxLeaks + 1) : MsgListenResolve(i)
  \/ \E p \in LogPayloads : MessageEvent(p)
  \/ \E msgs \in HistoryResponses(1) : HistorySettleOk(1, msgs)
  \/ HistorySettleFail(1)

NextMsg == Session \/ Ingest
NextLog == Log
NextSend == Compose
NextRefresh == Refresh
NextStay == Stay
NextNav == Navigate
NextRooms == Rooms
NextJoin == Boot \/ Form \/ Join
NextBackoff == Boot \/ Reconnect
NextConn == Boot \/ Reconnect \/ EditAddress
Next ==
  \/ Navigate \/ Ingest \/ Reconnect \/ EditAddress \/ Form \/ Join
  \/ Departments \/ Send

\* the message log and its subscriptions
SpecMsg == Init /\ [][NextMsg]_vars
\* the reconnect sequences of a session that stays where it booted
SpecBackoff == Init /\ [][NextBackoff]_vars
\* the reconnect sequences while the server address is edited
SpecConn == Init /\ [][NextConn]_vars
\* the login form, join and resume
SpecJoin == Init /\ [][NextJoin]_vars
\* the views: resume, join, entering and leaving rooms
SpecNav == Init /\ [][NextNav]_vars
\* the room list and the chat view of a resumed session
SpecRooms == Init /\ [][NextRooms]_vars
\* the reconnect sequences of a session that is in a room
SpecStay == Init /\ [][NextStay]_vars
\* the departments and the rooms, and the loads that refresh them
SpecRefresh == Init /\ [][NextRefresh]_vars
\* typing and sending in a room
SpecSend == Init /\ [][NextSend]_vars
\* the log of one room: events and history
SpecLog == Init /\ [][NextLog]_vars
\* every armed timer fires and every client_connect of a reconnect attempt
\* settles, one way or the other
Settles ==
  \A i \in 1..MaxSeqs :
    /\ WF_vars(TimerFire(i))
    /\ WF_vars(ReconnectSettleOk(i) \/ ReconnectSettleFail(i))

\* reconnection where timers fire and calls settle
SpecBackoffLive == Init /\ [][NextBackoff]_vars /\ Settles
\* every operation
Spec == Init /\ [][Next]_vars

(* ------------------------------- claims -------------------------------- *)
LiveMsg == {i \in 1..Len(msgEffects) : msgEffects[i].reg = "live"}

\* C1: a `message` event for a room other than the active one is never added
\* to the message log (events for another room, the previous one included,
\* are discarded).
C1_RoomScoping ==
  [][\A p \in Payloads :
       (MessageEvent(p) /\ currentRoom # NoRoom
          /\ p.room # RoomName(currentRoom.id))
       => messages' = messages]_vars

\* the entry the listener of room p.room appends for payload p
EntryOf(p) ==
  [room_id |-> CHOOSE r \in RoomIds : RoomName(r) = p.room, room |-> p.room,
   username |-> p.username, message |-> p.message,
   created_at |-> ToISO(p.created_at)]

Copies(e) == Cardinality({i \in 1..Len(messages) : messages[i] = e})

\* C2: delivering again the payload that was accepted (appended to the log)
\* leaves the log unchanged: the two deliveries yield one entry.
C2_Idempotent ==
  [][\A p \in Payloads :
       (MessageEvent(p) /\ echo.payload = p /\ echo.times >= 1)
       => messages' = messages]_vars

\* C2 happened: an accepted payload was delivered a second time and the log
\* holds its entry once.
C2_Redelivered ==
  /\ echo.times = 2
  /\ Copies(EntryOf(echo.payload)) = 1

\* the dedup key of an entry: sender, text, room, created-at to the second
DedupKey(e) == <<e.username, e.message, e.room, e.created_at \div MsPerSecond>>

\* C3: the message log never holds two entries with the same dedup key.
C3_NoDuplicateKeys ==
  \A i, j \in 1..Len(messages) :
    i # j => DedupKey(messages[i]) # DedupKey(messages[j])

Backoff == <<1000, 2000, 4000, 8000, 16000>>

IsPrefix(s, t) == Len(s) <= Len(t) /\ \A i \in 1..Len(s) : s[i] = t[i]

RECURSIVE Attempts(_, _)
Attempts(n, ev) ==
  IF n = 0 THEN 0
  ELSE Attempts(n - 1, ev) + (IF seqs[n].event = ev THEN Len(seqs[n].delays) ELSE 0)

AllFailed(s) == s.phase # "connected"

\* C4: for one connection_lost event whose attempts all fail, the attempts
\* come after delays 1000, 2000, 4000, 8000, 16000 and number at most 5.
C4_BackoffPerLoss ==
  \A ev \in 1..Len(seqs) :
    (\A i \in 1..Len(seqs) : seqs[i].event = ev => AllFailed(seqs[i]))
    => /\ \A i \in 1..Len(seqs) :
            seqs[i].event = ev => IsPrefix(seqs[i].delays, Backoff)
       /\ Attempts(Len(seqs), ev) <= maxRetries

\* C5: when the attempts for a loss are exhausted, the manager exposes a
\* "disconnected" status in its state: the component's state changes.
C5_ExhaustionExposed ==
  [][(\E i \in 1..Len(seqs) :
        seqs[i].phase # "exhausted" /\ seqs'[i].phase = "exhausted")
     => uiVars' # uiVars]_vars

\* C6 as stated: after a successful attempt the counter is 0 and the delay
\* is 1000 again.
C6_ResetOnSuccess ==
  \A i \in 1..Len(seqs) :
    seqs[i].phase = "connected"
    => seqs[i].retryCount = 0 /\ seqs[i].retryDelay = InitialRetryDelay

\* C6 amended: a successful attempt sets the counter to 0, and a
\* connection_lost handled after a success starts from counter 0 and delay
\* 1000: its first attempt is delayed by 1000 and it makes up to 5 attempts.
C6_FreshAfterSuccess ==
  \A i \in 1..Len(seqs) :
    /\ seqs[i].phase = "connected" => seqs[i].retryCount = 0
    /\ seqs[i].afterSuccess =>
         /\ Len(seqs[i].delays) = 0 =>
              seqs[i].retryCount = 0 /\ seqs[i].retryDelay = InitialRetryDelay
         /\ Len(seqs[i].delays) >= 1 => seqs[i].delays[1] = InitialRetryDelay
         /\ Len(seqs[i].delays) <= maxRetries
         /\ seqs[i].phase = "exhausted" => Len(seqs[i].delays) = maxRetries

\* C6 happened: a sequence succeeded after failures, and a later loss ran
\* through all of its attempts.
C6_SecondLossExhausted ==
  \E i, j \in 1..Len(seqs) :
    /\ seqs[i].phase = "connected" /\ seqs[i].retryDelay > InitialRetryDelay
    /\ seqs[j].afterSuccess /\ seqs[j].phase = "exhausted"

\* C7: at most one client_connect call is in flight at any time.
C7_SingleConnect ==
  Cardinality({i \in 1..Len(seqs) : seqs[i].phase = "inflight"}) <= 1

\* C8: a reconnect attempt calls client_connect with the serverIp,
\* currentUser and currentRoom that are current when its timer fires.
C8_CurrentValues ==
  [][\A i \in 1..Len(seqs) :
       (seqs[i].phase = "timer" /\ seqs'[i].phase = "inflight")
       => seqs'[i].call = ConnectArgs(serverIp, currentUser, currentRoom)]_vars

\* C9: a torn-down message effect holds no registered listener, so at most
\* one `message` subscription is live.
C9_SubscriptionReleased ==
  /\ \A i \in 1..Len(msgEffects) :
       msgEffects[i].torn => msgEffects[i].reg # "live"
  /\ Cardinality(LiveMsg) <= 1

\* C10: a timer pending when its effect is torn down never issues its
\* client_connect.
C10_TimerCancelled ==
  [][\A i \in 1..Len(seqs) :
       (seqs[i].phase = "timer" /\ seqs[i].cancelDue)
       => seqs'[i].phase # "inflight"]_vars

\* C11: when get_user_by_id succeeds for the cached id, the view becomes
\* "rooms", currentUser becomes the fetched user and one more get_chat_rooms
\* is issued, whatever the login form and the join were doing.
C11_ResumeSuccess ==
  [][ResumeSettleOk
     => /\ currentView' = "rooms"
        /\ currentUser'.id = SavedUserId
        /\ roomLoads' = roomLoads + 1]_vars

\* C11 happened: the session was resumed to the room list with no join.
C11_Resumed ==
  /\ resume = "done"
  /\ currentUser.id = SavedUserId
  /\ currentView = "rooms"
  /\ roomLoads = 1
  /\ joins = <<>>

\* C12: when get_user_by_id fails for the cached id, the view is "login",
\* the id that is cleared is the one resume read, and currentUser is
\* untouched.
C12_ResumeFailure ==
  [][ResumeSettleFail
     => /\ storage = SavedUserId
        /\ storage' = 0
        /\ currentView' = "login"
        /\ currentUser' = currentUser]_vars

\* the join that fails in this step
JoinFails(i) ==
  /\ i \in 1..Len(joins)
  /\ joins[i].phase # "failed"
  /\ joins'[i].phase = "failed"

\* C13: when a command of the join fails, the view is unchanged and
\* currentUser and the persisted id are as they were before the join.
C13_NothingRetained ==
  [][\A i \in 1..MaxJoins :
       JoinFails(i)
       => /\ currentView' = currentView
          /\ currentUser' = joins[i].userBefore
          /\ storage' = joins[i].storageBefore]_vars

\* C14: the persisted id that a join wrote was not written by a join that
\* failed.
C14_CachedIdFromSuccess ==
  \A i \in 1..Len(joins) :
    (joins[i].user # NoUser /\ storage = joins[i].user.id)
    => joins[i].phase # "failed"

\* the commands of a join, in order, for each mode
JoinOrder(m) ==
  IF m = "server"
  THEN <<"upsert_user", "server_listen", "get_server_info", "client_connect",
         "get_chat_rooms">>
  ELSE <<"upsert_user", "client_connect", "get_chat_rooms">>

\* the join that sets the view in this step
JoinCompletes(i) ==
  /\ i \in 1..Len(joins)
  /\ joins[i].phase = "rooms"
  /\ joins'[i].phase = "done"

Issued(i, c) == \E k \in 1..Len(joins[i].issued) : joins[i].issued[k] = c

\* C15: a join issues its commands in the order upsert_user, (host mode)
\* server_listen, get_server_info, then client_connect; it sets the view to
\* "rooms" only after upsert_user and client_connect succeeded, and
\* currentUser and the persisted id are then those of the returned user.
C15_JoinOrdering ==
  [][\A i \in 1..MaxJoins :
       /\ i \in 1..Len(joins')
            => IsPrefix(joins'[i].issued, JoinOrder(joins'[i].mode))
       /\ JoinCompletes(i)
            => /\ Issued(i, "upsert_user") /\ Issued(i, "client_connect")
               /\ joins[i].user # NoUser
               /\ currentView' = "rooms"
               /\ currentUser' = joins[i].user
               /\ storage' = joins[i].user.id]_vars

Blank(s) == s \in {"", " "}

\* C16: a join clicked with a blank name, a blank email or no department
\* issues no command and leaves the view, currentUser and the persisted id
\* unchanged.
C16_Validation ==
  [][(JoinClick /\ (Blank(username) \/ Blank(email) \/ departmentId = 0))
     => /\ joins'[Len(joins')].phase = "rejected"
        /\ joins'[Len(joins')].issued = <<>>
        /\ currentView' = currentView
        /\ currentUser' = currentUser
        /\ storage' = storage]_vars

\* C16 happened: a click was rejected by the guard on a blank name while the
\* other fields were filled in.
C16_Rejected ==
  /\ \E i \in 1..Len(joins) : joins[i].phase = "rejected"
  /\ username = " " /\ ~Blank(email) /\ departmentId # 0

ViewMachine ==
  {<<"login", "rooms">>, <<"rooms", "chat">>, <<"chat", "rooms">>,
   <<"rooms", "login">>, <<"chat", "login">>}

\* C17: every change of the view is one of Login -> Rooms, Rooms -> Chat,
\* Chat -> Rooms, Rooms -> Login, Chat -> Login.
C17_ViewMachine ==
  [][currentView' # currentView
     => <<currentView, currentView'>> \in ViewMachine]_vars

IdlessListed == \E k \in 1..Len(chatRooms) : chatRooms[k].id = 0

\* C18: whenever the view is "chat", currentRoom is a room with an id.
C18_ChatHasRoom ==
  currentView = "chat" => (currentRoom # NoRoom /\ currentRoom.id # 0)

\* C18 happened: the chat view shows a room after another join_room failed,
\* with a room without id on the list.
C18_ChatAfterFailure ==
  /\ currentView = "chat"
  /\ currentRoom.id \in RoomIds
  /\ refused # 0
  /\ IdlessListed

\* C19: whenever the view is "login" or "rooms", currentRoom is null.
C19_NoRoomOutsideChat ==
  currentView \in {"login", "rooms"} => currentRoom = NoRoom

\* C20: a join_room that fails leaves the view, currentRoom and the message
\* log unchanged, and a join_room is issued only for a room with an id by a
\* user with an id.
C20_FailedRoomJoin ==
  [][(\A room \in ListedRooms :
         JoinRoomSettleFail(room)
         => /\ currentView' = currentView
            /\ currentRoom' = currentRoom
            /\ messages' = messages)
     /\ (\A asked \in roomJoins' \ roomJoins :
           asked.id # 0 /\ currentUser.id # 0)]_vars

\* C20 happened: a join_room failed on the room list, which also shows a
\* room without id, and the user is still there with no room and no message.
C20_StillOnRoomList ==
  /\ refused # 0
  /\ roomJoins = {}
  /\ currentView = "rooms"
  /\ currentRoom = NoRoom
  /\ messages = <<>>
  /\ IdlessListed

\* the room entered in this step: the view was not "chat" and is now
EntersChat(room) ==
  /\ JoinRoomSettleOk(room)
  /\ currentView # "chat"

\* C21: every entry to the chat view issues one more get_room_messages for
\* the room that becomes active, also when it is the room that was active
\* before the user went back to the room list.
C21_HistoryOnEntry ==
  [][\A room \in ListedRooms :
       EntersChat(room) => histLoads'[room.id] = histLoads[room.id] + 1]_vars

\* C29: the log-out button sets the view to "login" and leaves the persisted
\* user id as it is.
C29_LeaveKeepsId ==
  [][Leave => currentView' = "login" /\ storage' = storage]_vars

\* C29 happened: the user left a room for the login form and the id the
\* session was resumed with is still persisted.
C29_LeftWithId ==
  /\ currentView = "login"
  /\ currentRoom # NoRoom
  /\ storage = SavedUserId
  /\ currentUser.id = SavedUserId

\* a step of the reconnection: the connection_lost callback, a timer, or a
\* client_connect that settles
ReconnectStep ==
  \/ ConnectionLostEvent
  \/ \E i \in 1..MaxSeqs : TimerFire(i)
  \/ \E i \in 1..MaxSeqs : ReconnectSettleOk(i)
  \/ \E i \in 1..MaxSeqs : ReconnectSettleFail(i)

\* C30: no step of the reconnection (the loss, an attempt that succeeds or
\* fails, the exhaustion of the attempts) changes the view, currentRoom or
\* the message log.
C30_ReconnectKeepsView ==
  [][ReconnectStep => UNCHANGED <<currentView, currentRoom, messages>>]_vars

\* C30 happened: the connection was lost in a room, the attempts were
\* exhausted, and the user is still in the chat view of that room.
C30_ExhaustedInChat ==
  /\ currentView = "chat"
  /\ currentRoom.id = 1
  /\ \E i \in 1..Len(seqs) :
       seqs[i].phase = "exhausted" /\ seqs[i].room = currentRoom

\* C28: a get_departments or get_chat_rooms that fails leaves the collection
\* as it was and its caller goes on (a join still shows the room list); one
\* that succeeds replaces the collection by the response.
C28_RefreshFailure ==
  [][/\ \A more \in BOOLEAN :
          DepartmentsSettleFail(more) => departments' = departments
     /\ ChatRoomsSettleFail => chatRooms' = chatRooms
     /\ \A i \in 1..MaxJoins :
          JoinRoomsSettleFail(i)
          => /\ chatRooms' = chatRooms
             /\ joins'[i].phase = "done"
             /\ currentView' = "rooms"
     /\ \A deps \in DeptLists : \A more \in BOOLEAN :
          DepartmentsSettleOk(deps, more) => departments' = deps
     /\ \A ids \in CatalogIds :
          (ChatRoomsSettleOk(ids) \/ \E i \in 1..MaxJoins : JoinRoomsSettleOk(i, ids))
          => chatRooms' = Catalog(ids)]_vars

\* C28 happened: a refresh of the departments and a refresh of the rooms
\* both failed while a snapshot was held, both snapshots are still there, and
\* the join whose room refresh failed shows the room list.
C28_SnapshotsKept ==
  /\ stale = {"departments", "rooms"}
  /\ departments # <<>>
  /\ chatRooms # <<>>
  /\ currentView = "rooms"
  /\ \E i \in 1..Len(joins) : joins[i].phase = "done"

\* a step of handleSendMessage: the click, or the send command settling
SendStep ==
  \/ SendClick
  \/ \E i \in 1..MaxSends : SendSettleOk(i)
  \/ \E i \in 1..MaxSends : SendSettleFail(i)

\* C27: no step of the send operation changes the message log, whether the
\* send command succeeds or fails.
C27_SendKeepsLog ==
  [][SendStep => messages' = messages]_vars

\* C27 happened: the user's message was sent, the history of the room is
\* loaded and the listener is registered, and the log does not hold the
\* message: the server's event has not arrived.
C27_SentNotLogged ==
  /\ \E i \in 1..Len(sends) : sends[i].phase = "ok" /\ sends[i].message = "hi"
  /\ currentView = "chat"
  /\ histLoads[1] = 0
  /\ \E k \in 1..Len(msgEffects) :
       msgEffects[k].reg = "live" /\ msgEffects[k].room = currentRoom
  /\ \A k \in 1..Len(messages) : messages[k].username # UserName(SavedUserId)

\* C22: a get_room_messages that succeeds makes the message log exactly the
\* returned list, whatever the listeners had appended; one that fails leaves
\* the log unchanged.
C22_HistoryReplaces ==
  [][\A r \in RoomIds :
       /\ \A msgs \in HistoryResponses(r) :
            HistorySettleOk(r, msgs) => messages' = msgs
       /\ HistorySettleFail(r) => messages' = messages]_vars

\* C22 happened: an event was appended by the listener, the history load of
\* the room settled after that, and the log is the one row it returned.
C22_ReplacedLiveEntries ==
  /\ note = "recovered"
  /\ echo = NoEcho
  /\ currentView = "chat"
  /\ histLoads[currentRoom.id] = 0
  /\ Len(messages) = 1
  /\ messages[1] \in HistoryEntries(currentRoom.id)

\* the same payload with its timestamp in the other unit
UnitTwin(p, q) ==
  /\ p.json /\ q.json
  /\ p.username = q.username /\ p.message = q.message
  /\ p.message_type = q.message_type /\ p.room = q.room
  /\ \/ p.created_at = q.created_at * MsPerSecond
     \/ q.created_at = p.created_at * MsPerSecond

\* C23: an event that differs from the one just appended only in the unit
\* of its timestamp (seconds against milliseconds, same instant) is dropped.
C23_UnitRoundTrip ==
  [][\A p \in LogPayloads :
       (MessageEvent(p) /\ echo.times >= 1 /\ UnitTwin(p, echo.payload))
       => messages' = messages]_vars

\* C24: a `message` event whose payload fails to parse leaves the log and
\* the subscriptions as they are, so that any event delivered next is
\* handled as it would have been without it.
C24_MalformedDropped ==
  [][MessageEvent(Malformed)
     => /\ messages' = messages
        /\ msgEffects' = msgEffects
        /\ \A p \in LogPayloads :
             Deliver(msgEffects', messages', p) = Deliver(msgEffects, messages, p)]_vars

\* C24 happened: a payload that failed to parse was dropped and the event
\* delivered after it was appended to the log.
C24_IngestedAfterDrop ==
  /\ note = "recovered"
  /\ echo.times = 1
  /\ \E k \in 1..Len(messages) : messages[k] = EntryOf(echo.payload)

\* C26: an event either leaves the log as it is or adds one entry at its
\* end; the entries already there keep their place and their content.
C26_ArrivalOrder ==
  [][\A p \in LogPayloads \cup Payloads :
       MessageEvent(p)
       => \/ messages' = messages
          \/ /\ Len(messages') = Len(messages) + 1
             /\ IsPrefix(messages, messages')
             /\ messages'[Len(messages')] = EntryOf(p)]_vars

\* C26 happened: the log holds two entries appended by the listener in the
\* order of their arrival, the later instant first.
C26_ArrivedOutOfTimeOrder ==
  /\ Len(messages) = 2
  /\ messages[1].created_at = ToISO(2)
  /\ messages[2].created_at = ToISO(1)
  /\ echo.times >= 1
  /\ echo.payload.created_at = 1

\* what the acceptance filter asks of a parsed payload: the chat kind, the
\* name of the active room, and a dedup key that no entry of the log has
Accepts(p) ==
  /\ p.message_type = "Chat"
  /\ currentRoom # NoRoom
  /\ p.room = RoomName(currentRoom.id)
  /\ \A k \in 1..Len(messages) : DedupKey(messages[k]) # DedupKey(EntryOf(p))

\* C25: whenever a listener is registered, what a parsed `message` event
\* does to the log is decided by the acceptance filter: the log gains the
\* entry of the event at its end if and only if the event is of the chat
\* kind, names the active room and has a dedup key that no entry has; every
\* other event leaves the log unchanged.
C25_AcceptanceFilter ==
  LiveMsg # {}
  => \A p \in Payloads \ {Malformed} :
       Deliver(msgEffects, messages, p)
         = IF Accepts(p) THEN Append(messages, EntryOf(p)) ELSE messages

\* C31: while the chat view is shown, every entry of the message log is an
\* entry of the active room.
C31_LogScopedToRoom ==
  currentView = "chat"
  => \A k \in 1..Len(messages) : messages[k].room_id = currentRoom.id

\* a handleJoin that has issued a command and not yet reached its end
JoinInFlight ==
  \E i \in 1..Len(joins) :
    joins[i].phase \in {"upsert", "listen", "info", "connect", "rooms"}

\* C32: when no join and no resume is in flight and both the session user
\* and the persisted id are present, the persisted id is the id of the
\* session user.
C32_PersistedIdAgrees ==
  (~JoinInFlight /\ resume # "inflight" /\ currentUser # NoUser /\ storage # 0)
  => storage = currentUser.id

\* C33: whenever the view is "rooms" or "chat", a session user is present.
C33_UserPastLogin ==
  currentView \in {"rooms", "chat"} => currentUser # NoUser

\* C33 happened: with no cached id to resume from, a join made at the login
\* form set the session user and then advanced the view.
C33_JoinedPastLogin ==
  /\ currentView = "rooms"
  /\ resume = "none"
  /\ ~JoinInFlight
  /\ currentUser.id = NewUserId

\* C34: a sequence started before any reconnect attempt had succeeded issues
\* no client_connect once an attempt has succeeded (a sequence started by a
\* connection_lost that came after the success may).
C34_QuietAfterSuccess ==
  [][\A i \in 1..Len(seqs) :
       (TimerFire(i) /\ ~seqs[i].afterSuccess)
       => ~\E j \in 1..Len(seqs) : seqs[j].phase = "connected"]_vars

\* sequence i, once started, has ended: by a successful attempt or by
\* giving up
Ended(i) ==
  i <= Len(seqs) => seqs[i].phase \in {"connected", "exhausted"}

\* C35: every reconnection sequence is, from some moment on, ended for good
\* (no timer is armed after that); one that gave up has made 5 attempts.
C35_ReconnectionTerminates ==
  /\ \A i \in 1..MaxSeqs : <>[]Ended(i)
  /\ [](\A i \in 1..Len(seqs) :
          seqs[i].phase = "exhausted" => Len(seqs[i].delays) = maxRetries)

\* C35 happened: a sequence ended after its 5th failed attempt and another
\* ended with a successful attempt after a failure.
C35_BothEndings ==
  \E i, j \in 1..Len(seqs) :
    /\ seqs[i].phase = "exhausted" /\ Len(seqs[i].delays) = maxRetries
    /\ seqs[j].phase = "connected" /\ Len(seqs[j].delays) >= 2

====
